---------------------------- MODULE Spec2Model ----------------------------
(***************************************************************************)
(* Heston autocallable-note pricer and calibration loop.                   *)
(*                                                                         *)
(*   src/heston_pricer.py   HestonPricer.price_autocallable_note,          *)
(*                          HestonPricer.calibrate_heston_model            *)
(*   src/calibration.py     calibrate_heston_model                         *)
(*                                                                         *)
(* Reals are carried as integers in fixed units:                           *)
(*   barriers and normalized levels in 1/Scale      (1.0  = Scale)         *)
(*   coupon rate and payoffs in 1/RateScale         (0.05 = 5)             *)
(*   discount factors in 1/DfScale                  (1.0  = DfScale)       *)
(* so a payoff is in currency/RateScale and a present value in             *)
(* currency/(RateScale*DfScale).  The values drawn below make every        *)
(* division exact.                                                         *)
(***************************************************************************)
EXTENDS Integers, Sequences, FiniteSets, TLC

VARIABLES
    \* ---- HestonPricer object (heston_pricer.py:22-37)
    valuation_date, strike_price, risk_free_rate,
    \* ---- price_autocallable_note: argument, locals, position
    product_specs, num_paths, pc, paths, path_idx, obs_idx,
    total_pv, unpaid_coupons, has_been_called, payoff, branch, payoff_pvs,
    status, result, error, log,
    \* ---- paired pricing of one batch under two autocall barriers
    higher_barrier, price_low, price_high,
    \* ---- calibrate_heston_model (both implementations)
    impl, cal_pc, market_data, calibration_helpers, model_params,
    last_x, last_value, n_evals, best_x, best_f, returned_params

pricerVars == <<valuation_date, strike_price, risk_free_rate>>
callVars   == <<product_specs, num_paths, pc, paths, path_idx, obs_idx,
                total_pv, unpaid_coupons, has_been_called, payoff, branch,
                payoff_pvs, status, result, error, log>>
pairVars   == <<higher_barrier, price_low, price_high>>
calVars    == <<impl, cal_pc, market_data, calibration_helpers, model_params,
                last_x, last_value, n_evals, best_x, best_f, returned_params>>
vars       == <<pricerVars, callVars, pairVars, calVars>>

-----------------------------------------------------------------------------
(* Units and bounds *)

Scale == 10
RateScale == 100
DfScale == 10
\* objective values carry 1/SqrtScale
SqrtScale == 10

\* number of coupon dates of the longest schedule priced step by step
MaxDates == 4
\* number of coupon dates of the schedule priced under two barriers
PairDates == 3
\* objective evaluations the optimizer may make
MaxEvals == 3
\* size of the volatility surface
MaxExpiries == 2
MaxStrikes == 2

\* underlying prices a simulated path or a past fixing can take; with
\* strike 2 they are the normalized levels 0.5, 1.0 and 1.5
PathLevels == {1, 2, 3}
Strikes == {2}
Notionals == {-1, 2}
CouponRates == {5}
\* (autocall, coupon, protection) barriers, in 1/Scale
\* flat risk-free rates: discount factors all equal (0) or falling (1)
FlatRates == {0, 1}
BarrierTriples == {<<10, 10, 10>>, <<15, 10, 10>>, <<15, 15, 10>>, <<10, 15, 10>>}

-----------------------------------------------------------------------------
(* Generic helpers *)

Min(a, b) == IF a <= b THEN a ELSE b

RECURSIVE SumSeq(_)
SumSeq(s) == IF s = <<>> THEN 0 ELSE Head(s) + SumSeq(Tail(s))

SetMax(S) == CHOOSE x \in S : \A y \in S : y <= x

IsStrictlyIncreasing(s) == \A a, b \in 1..Len(s) : a < b => s[a] < s[b]

\* a price is the exact fraction num/den, den > 0
Rat(n, d) == <<n, d>>
RatZero == Rat(0, 1)
RatLE(a, b) == a[1] * b[2] <= b[1] * a[2]

-----------------------------------------------------------------------------
(* price_autocallable_note: the pure parts *)

\* the maturity test made strict
MaturedStrict(v, coupon_dates) == v > coupon_dates[Len(coupon_dates)]

\* heston_pricer.py:149  self.valuation_date >= coupon_dates[-1]
Matured(v, coupon_dates) == v >= coupon_dates[Len(coupon_dates)]

\* heston_pricer.py:152  self.valuation_date >= coupon_dates[0]
AfterFirstCoupon(v, coupon_dates) == v >= coupon_dates[1]

FixingValues(past_fixings) == {past_fixings[d] : d \in DOMAIN past_fixings}

\* the already-autocalled test made strict
AlreadyAutocalledStrict(past_fixings, autocall_barrier, strike) ==
    \E d \in DOMAIN past_fixings :
       past_fixings[d] * Scale > autocall_barrier * strike

\* heston_pricer.py:153  max(past_fixings.values()) >= autocall_barrier * strike
\* (called only on a non-empty mapping; max() of an empty one raises)
AlreadyAutocalled(past_fixings, autocall_barrier, strike) ==
    SetMax(FixingValues(past_fixings)) * Scale >= autocall_barrier * strike

\* heston_pricer.py:157  coupon_dates[coupon_dates > self.valuation_date]
FutureDates(coupon_dates, v) == SelectSeq(coupon_dates, LAMBDA d : d > v)

\* heston_pricer.py:164  coupon_dates[coupon_dates <= self.valuation_date]
PastDates(coupon_dates, v) == SelectSeq(coupon_dates, LAMBDA d : d <= v)

\* heston_pricer.py:158
ObservationDates(coupon_dates, v) == <<v>> \o FutureDates(coupon_dates, v)

\* heston_pricer.py:180  path / self.strike_price, in 1/Scale
UnderlyingLevel(path_value, strike) == (path_value * Scale) \div strike

\* heston_pricer.py:193  underlying_level * self.strike_price
ActualLevel(underlying_level, strike) == (underlying_level * strike) \div Scale

\* heston_pricer.py:146  default final_payoff_formula: x / strike, in 1/RateScale
FinalPayoffFormula(actual_level, strike) == (actual_level * RateScale) \div strike

\* heston_pricer.py:173  int(has_memory)
MemoryFactor(has_memory) == IF has_memory THEN 1 ELSE 0

\* heston_pricer.py:209  risk_free_curve.discount(date): the flat-forward curve
\* built at heston_pricer.py:32-34, a factor in (0, DfScale] that falls with
\* the time from the valuation date when the rate is positive
Discount(observation_date, v, rate) == DfScale - rate * (observation_date - v)

\* heston_pricer.py:189 and :199
RedemptionWithCoupon(notional, coupon_rate, unpaid, memory_factor) ==
    notional * (RateScale + (coupon_rate * (1 + unpaid * memory_factor)))

\* the coupon without the catch-up of unpaid coupons
CouponWithoutCatchUp(notional, coupon_rate, unpaid, memory_factor) ==
    notional * coupon_rate

\* heston_pricer.py:202
CouponOnly(notional, coupon_rate, unpaid, memory_factor) ==
    notional * (coupon_rate * (1 + unpaid * memory_factor))

\* the principal not returned
PrincipalLost(notional) == 0

\* heston_pricer.py:191
PrincipalOnly(notional) == notional * RateScale

\* heston_pricer.py:193-194
Shortfall(notional, underlying_level, strike) ==
    notional * FinalPayoffFormula(ActualLevel(underlying_level, strike), strike)

\* the coupon barrier tested before the autocall barrier
CouponFirstBranch(underlying_level, autocall_barrier, coupon_barrier) ==
    IF underlying_level >= coupon_barrier THEN "coupon"
    ELSE IF underlying_level >= autocall_barrier THEN "autocall"
    ELSE "miss"

\* heston_pricer.py:198-205  order of the intermediate-date checks
IntermediateBranch(underlying_level, autocall_barrier, coupon_barrier) ==
    IF underlying_level >= autocall_barrier THEN "autocall"
    ELSE IF underlying_level >= coupon_barrier THEN "coupon"
    ELSE "miss"

\* heston_pricer.py:188-194  order of the final-date checks
FinalBranch(underlying_level, coupon_barrier, protection_barrier) ==
    IF underlying_level >= coupon_barrier THEN "final_coupon"
    ELSE IF underlying_level >= protection_barrier THEN "principal"
    ELSE "shortfall"

\* the date loop without its break
LoopNeverBreaks(called) == FALSE

\* heston_pricer.py:181-182  if has_been_called: break
LoopBreaks(called) == called

\* heston_pricer.py:176-178  per-path state at the top of the date loop
FreshPath ==
    [total_pv |-> 0, unpaid_coupons |-> 0, has_been_called |-> FALSE,
     payoff |-> 0, branch |-> "none"]

\* heston_pricer.py:184-210  one iteration of the date loop
ObserveStep(ps, st, observation_date, path_value, v, strike, rate) ==
    LET expiration_date == ps.coupon_dates[Len(ps.coupon_dates)]
        underlying_level == UnderlyingLevel(path_value, strike)
        memory_factor == MemoryFactor(ps.has_memory)
        br == IF observation_date = expiration_date
              THEN FinalBranch(underlying_level, ps.coupon_barrier,
                               ps.protection_barrier)
              ELSE IntermediateBranch(underlying_level, ps.autocall_barrier,
                                      ps.coupon_barrier)
        pay == CASE br = "final_coupon" ->
                      RedemptionWithCoupon(ps.notional, ps.coupon_rate,
                                           st.unpaid_coupons, memory_factor)
                 [] br = "principal" -> PrincipalOnly(ps.notional)
                 [] br = "shortfall" ->
                      Shortfall(ps.notional, underlying_level, strike)
                 [] br = "autocall" ->
                      RedemptionWithCoupon(ps.notional, ps.coupon_rate,
                                           st.unpaid_coupons, memory_factor)
                 [] br = "coupon" ->
                      CouponOnly(ps.notional, ps.coupon_rate,
                                 st.unpaid_coupons, memory_factor)
                 [] OTHER -> 0
    IN  [total_pv |-> IF observation_date > v
                      THEN st.total_pv + pay * Discount(observation_date, v, rate)
                      ELSE st.total_pv,
         unpaid_coupons |-> CASE br = "coupon" -> 0
                              [] br = "miss" -> st.unpaid_coupons + 1
                              [] OTHER -> st.unpaid_coupons,
         has_been_called |-> (st.has_been_called \/ br = "autocall"),
         payoff |-> pay,
         branch |-> br]

\* heston_pricer.py:180  zip(coupon_dates, path / strike) stops at the shorter
ZipLen(coupon_dates, path) == Min(Len(coupon_dates), Len(path))

\* heston_pricer.py:175-212  the whole date loop for one path
RECURSIVE WalkPath(_, _, _, _, _, _, _)
WalkPath(ps, st, path, i, v, strike, rate) ==
    IF i > ZipLen(ps.coupon_dates, path) \/ LoopBreaks(st.has_been_called)
    THEN st
    ELSE WalkPath(ps, ObserveStep(ps, st, ps.coupon_dates[i], path[i],
                                  v, strike, rate),
                  path, i + 1, v, strike, rate)

\* heston_pricer.py:214  np.mean(np.array(payoff_pvs))
Mean(pvs) == Rat(SumSeq(pvs), Len(pvs))

\* heston_pricer.py:164-168  past fixings tiled in front of every simulated row
WithPastFixings(ps, sim_paths, v) ==
    LET past_dates == PastDates(ps.coupon_dates, v)
        past_fixings_array == [k \in 1..Len(past_dates) |->
                                  ps.past_fixings[past_dates[k]]]
    IN  [p \in 1..Len(sim_paths) |-> past_fixings_array \o sim_paths[p]]

-----------------------------------------------------------------------------
(* price_autocallable_note, step by step *)

\* schedules 1..n, the shape the product specification asks for
GoodSchedules == {[k \in 1..n |-> k] : n \in 1..MaxDates}
\* schedules that are not strictly increasing
BadSchedules == {<<2, 1>>, <<1, 1>>, <<1, 3, 2>>}

SeqRange(s) == {s[k] : k \in 1..Len(s)}

\* past_fixings: any mapping from some of the coupon dates at or before the
\* valuation date to a fixed level (heston_pricer.py:145, default {})
FixingMaps(coupon_dates, v) ==
    UNION {[D -> PathLevels] : D \in SUBSET {d \in SeqRange(coupon_dates) : d <= v}}

ProductSpecs(schedules, notionals, v) ==
    UNION {{[coupon_dates |-> cd, notional |-> n,
             autocall_barrier |-> bt[1], coupon_barrier |-> bt[2],
             protection_barrier |-> bt[3], coupon_rate |-> c,
             has_memory |-> m, past_fixings |-> pf] :
               n \in notionals, bt \in BarrierTriples, c \in CouponRates,
               m \in BOOLEAN, pf \in FixingMaps(cd, v)} : cd \in schedules}

IdleCall ==
    /\ pc = "start" /\ paths = <<>> /\ path_idx = 0 /\ obs_idx = 0
    /\ total_pv = 0 /\ unpaid_coupons = 0 /\ has_been_called = FALSE
    /\ payoff = 0 /\ branch = "none" /\ payoff_pvs = <<>>
    /\ status = "running" /\ result = RatZero /\ error = "" /\ log = {}

Unpriced == [status |-> "unpriced", result |-> RatZero, error |-> ""]

IdlePair == higher_barrier = 0 /\ price_low = Unpriced /\ price_high = Unpriced

IdleCal ==
    /\ impl = "none" /\ cal_pc = "idle" /\ market_data = <<>>
    /\ calibration_helpers = <<>> /\ model_params = <<>>
    /\ last_x = <<>> /\ last_value = 0
    /\ n_evals = 0 /\ best_x = <<>> /\ best_f = 0 /\ returned_params = <<>>

\* a pricer (heston_pricer.py:11-37) and one call of price_autocallable_note
Init ==
    /\ valuation_date \in 0..MaxDates
    /\ strike_price \in Strikes
    /\ risk_free_rate \in FlatRates
    /\ product_specs \in ProductSpecs(GoodSchedules \cup BadSchedules,
                                      Notionals, valuation_date)
    /\ num_paths = 1
    /\ IdleCall /\ IdlePair /\ IdleCal

Return(value) ==
    /\ pc' = "done" /\ status' = "returned" /\ result' = value
    /\ UNCHANGED error

Raise(kind) ==
    /\ pc' = "done" /\ status' = "raised" /\ error' = kind
    /\ UNCHANGED result

loopVars == <<path_idx, obs_idx, total_pv, unpaid_coupons, has_been_called,
              payoff, branch, payoff_pvs>>

\* heston_pricer.py:138-150
CheckMatured ==
    /\ pc = "start"
    /\ log' = log \cup {"matured_check"}
    /\ IF Matured(valuation_date, product_specs.coupon_dates)
       THEN Return(RatZero)
       ELSE pc' = "check_called" /\ UNCHANGED <<status, result, error>>
    /\ UNCHANGED <<pricerVars, product_specs, num_paths, paths, loopVars,
                   pairVars, calVars>>

\* heston_pricer.py:152-154
CheckAutocalled ==
    /\ pc = "check_called"
    /\ IF AfterFirstCoupon(valuation_date, product_specs.coupon_dates)
       THEN /\ log' = log \cup {"autocall_check", "read_fixings"}
            /\ IF DOMAIN product_specs.past_fixings = {}
               THEN Raise("ValueError")
               ELSE IF AlreadyAutocalled(product_specs.past_fixings,
                                         product_specs.autocall_barrier,
                                         strike_price)
                    THEN Return(RatZero)
                    ELSE /\ pc' = "generate"
                         /\ UNCHANGED <<status, result, error>>
       ELSE /\ log' = log \cup {"autocall_check"}
            /\ pc' = "generate"
            /\ UNCHANGED <<status, result, error>>
    /\ UNCHANGED <<pricerVars, product_specs, num_paths, paths, loopVars,
                   pairVars, calVars>>

\* heston_pricer.py:39-71  generate_paths(...)[:, 1:] : num_paths rows, one
\* simulated level per future date
SimulatedBatches(n_rows, n_dates) ==
    [1..n_rows -> [1..n_dates -> PathLevels]]

\* heston_pricer.py:157-161
GeneratePaths ==
    /\ pc = "generate"
    /\ log' = log \cup {"generate_paths"}
    /\ \E batch \in SimulatedBatches(num_paths,
              Len(FutureDates(product_specs.coupon_dates, valuation_date))) :
          paths' = batch
    /\ pc' = "fold"
    /\ UNCHANGED <<pricerVars, product_specs, num_paths, loopVars,
                   status, result, error, pairVars, calVars>>

\* heston_pricer.py:61-63  the time grid handed to the path generator is not
\* strictly increasing: the library may reject it
GeneratePathsFails ==
    /\ pc = "generate"
    /\ ~IsStrictlyIncreasing(ObservationDates(product_specs.coupon_dates,
                                              valuation_date))
    /\ log' = log \cup {"generate_paths"}
    /\ Raise("RuntimeError")
    /\ UNCHANGED <<pricerVars, product_specs, num_paths, paths, loopVars,
                   pairVars, calVars>>

\* heston_pricer.py:164-178
IncludePastFixings ==
    /\ pc = "fold"
    /\ LET past_dates == PastDates(product_specs.coupon_dates, valuation_date)
       IN  IF Len(past_dates) > 0
           THEN /\ log' = log \cup {"read_fixings"}
                /\ IF \E k \in 1..Len(past_dates) :
                          past_dates[k] \notin DOMAIN product_specs.past_fixings
                   THEN /\ Raise("KeyError")
                        /\ UNCHANGED <<paths, loopVars>>
                   ELSE /\ paths' = WithPastFixings(product_specs, paths,
                                                    valuation_date)
                        /\ pc' = "loop" /\ path_idx' = 1 /\ obs_idx' = 1
                        /\ UNCHANGED <<status, result, error, total_pv,
                                       unpaid_coupons, has_been_called, payoff,
                                       branch, payoff_pvs>>
           ELSE /\ pc' = "loop" /\ path_idx' = 1 /\ obs_idx' = 1
                /\ UNCHANGED <<log, paths, status, result, error, total_pv,
                               unpaid_coupons, has_been_called, payoff,
                               branch, payoff_pvs>>
    /\ UNCHANGED <<pricerVars, product_specs, num_paths, pairVars, calVars>>

\* heston_pricer.py:180-210  one observation date of the current path
ObserveDate ==
    /\ pc = "loop"
    /\ obs_idx <= ZipLen(product_specs.coupon_dates, paths[path_idx])
    /\ ~LoopBreaks(has_been_called)
    /\ LET st == ObserveStep(product_specs,
                     [total_pv |-> total_pv, unpaid_coupons |-> unpaid_coupons,
                      has_been_called |-> has_been_called, payoff |-> payoff,
                      branch |-> branch],
                     product_specs.coupon_dates[obs_idx],
                     paths[path_idx][obs_idx],
                     valuation_date, strike_price, risk_free_rate)
       IN  /\ total_pv' = st.total_pv
           /\ unpaid_coupons' = st.unpaid_coupons
           /\ has_been_called' = st.has_been_called
           /\ payoff' = st.payoff
           /\ branch' = st.branch
    /\ obs_idx' = obs_idx + 1
    /\ log' = log \cup {"loop"}
    /\ UNCHANGED <<pricerVars, product_specs, num_paths, pc, paths, path_idx,
                   payoff_pvs, status, result, error, pairVars, calVars>>

\* heston_pricer.py:175-178, 181-182, 212  the date loop ends (exhausted or
\* broken): the path's present value is recorded and the next path starts
EndPath ==
    /\ pc = "loop"
    /\ \/ obs_idx > ZipLen(product_specs.coupon_dates, paths[path_idx])
       \/ LoopBreaks(has_been_called)
    /\ payoff_pvs' = Append(payoff_pvs, total_pv)
    /\ IF path_idx < Len(paths)
       THEN /\ path_idx' = path_idx + 1 /\ obs_idx' = 1
            /\ total_pv' = FreshPath.total_pv
            /\ unpaid_coupons' = FreshPath.unpaid_coupons
            /\ has_been_called' = FreshPath.has_been_called
            /\ UNCHANGED <<pc, payoff, branch>>
       ELSE /\ pc' = "mean"
            /\ UNCHANGED <<path_idx, obs_idx, total_pv, unpaid_coupons,
                           has_been_called, payoff, branch>>
    /\ UNCHANGED <<pricerVars, product_specs, num_paths, paths, status, result,
                   error, log, pairVars, calVars>>

\* heston_pricer.py:214
ReturnMean ==
    /\ pc = "mean"
    /\ Return(Mean(payoff_pvs))
    /\ UNCHANGED <<pricerVars, product_specs, num_paths, paths, loopVars, log,
                   pairVars, calVars>>

Next ==
    \/ CheckMatured
    \/ CheckAutocalled
    \/ GeneratePaths
    \/ GeneratePathsFails
    \/ IncludePastFixings
    \/ ObserveDate
    \/ EndPath
    \/ ReturnMean

Spec == Init /\ [][Next]_vars

-----------------------------------------------------------------------------
(* price_autocallable_note as one function of the simulated batch, and the  *)
(* same batch priced under two autocall barriers                            *)

Returned(value) == [status |-> "returned", result |-> value, error |-> ""]
Raised(kind) == [status |-> "raised", result |-> RatZero, error |-> kind]

\* heston_pricer.py:175-212  present value of every row of the batch
PathPVs(ps, full_paths, v, strike, rate) ==
    [p \in 1..Len(full_paths) |->
        WalkPath(ps, FreshPath, full_paths[p], 1, v, strike, rate).total_pv]

\* heston_pricer.py:138-214 with the rows generate_paths returned given
PriceOutcome(ps, sim_paths, v, strike, rate) ==
    LET past_dates == PastDates(ps.coupon_dates, v)
    IN  IF Matured(v, ps.coupon_dates) THEN Returned(RatZero)
        ELSE IF AfterFirstCoupon(v, ps.coupon_dates)
                  /\ DOMAIN ps.past_fixings = {}
        THEN Raised("ValueError")
        ELSE IF AfterFirstCoupon(v, ps.coupon_dates)
                  /\ AlreadyAutocalled(ps.past_fixings, ps.autocall_barrier,
                                       strike)
        THEN Returned(RatZero)
        ELSE IF \E k \in 1..Len(past_dates) :
                    past_dates[k] \notin DOMAIN ps.past_fixings
        THEN Raised("KeyError")
        ELSE Returned(Mean(PathPVs(ps, WithPastFixings(ps, sim_paths, v),
                                   v, strike, rate)))

\* Athena-style products (autocall barrier = coupon barrier)
AthenaTriples == {<<10, 10, 10>>, <<10, 10, 5>>}
HigherBarriers == {15, 20}
BatchSizes == {1, 2}

\* every coupon date at or before the valuation date has its fixing
CompleteFixings(coupon_dates, v) ==
    [{d \in SeqRange(coupon_dates) : d <= v} -> PathLevels]

InitPair ==
    /\ valuation_date \in 0..(PairDates - 1)
    /\ strike_price \in Strikes
    /\ risk_free_rate \in FlatRates
    /\ \E bt \in AthenaTriples, m \in BOOLEAN :
         \E pf \in CompleteFixings([k \in 1..PairDates |-> k], valuation_date) :
            product_specs =
              [coupon_dates |-> [k \in 1..PairDates |-> k], notional |-> 2,
               autocall_barrier |-> bt[1], coupon_barrier |-> bt[2],
               protection_barrier |-> bt[3], coupon_rate |-> 5,
               has_memory |-> m, past_fixings |-> pf]
    /\ higher_barrier \in HigherBarriers
    /\ num_paths \in BatchSizes
    /\ paths \in SimulatedBatches(num_paths,
           Len(FutureDates(product_specs.coupon_dates, valuation_date)))
    /\ price_low = Unpriced /\ price_high = Unpriced
    /\ pc = "pair" /\ path_idx = 0 /\ obs_idx = 0
    /\ total_pv = 0 /\ unpaid_coupons = 0 /\ has_been_called = FALSE
    /\ payoff = 0 /\ branch = "none" /\ payoff_pvs = <<>>
    /\ status = "running" /\ result = RatZero /\ error = "" /\ log = {}
    /\ IdleCal

\* price_autocallable_note(product_specs, ...) on the batch
PriceAtLowerBarrier ==
    /\ pc = "pair" /\ price_low = Unpriced
    /\ price_low' = PriceOutcome(product_specs, paths, valuation_date,
                                 strike_price, risk_free_rate)
    /\ UNCHANGED <<pricerVars, callVars, higher_barrier, price_high, calVars>>

\* price_autocallable_note on the same batch, autocall_barrier raised
PriceAtHigherBarrier ==
    /\ pc = "pair" /\ price_high = Unpriced
    /\ price_high' = PriceOutcome(
           [product_specs EXCEPT !.autocall_barrier = higher_barrier],
           paths, valuation_date, strike_price, risk_free_rate)
    /\ UNCHANGED <<pricerVars, callVars, higher_barrier, price_low, calVars>>

NextPair == PriceAtLowerBarrier \/ PriceAtHigherBarrier

SpecPair == InitPair /\ [][NextPair]_vars

-----------------------------------------------------------------------------
(* Properties of price_autocallable_note *)

ExpirationDate == product_specs.coupon_dates[Len(product_specs.coupon_dates)]

\* normalized level of row p at its k-th observation, in 1/Scale
LevelAt(p, k) == UnderlyingLevel(paths[p][k], strike_price)

\* the rows hold one level per coupon date (past fixings folded in)
InLoop == pc = "loop"
LoopWasRun == pc \in {"loop", "mean", "done"} /\ "loop" \in log

\* the date loop has just handled observation obs_idx - 1 of row path_idx
JustObserved == InLoop /\ obs_idx > 1

\* how many observations immediately before the k-th fell below the
\* coupon barrier
RECURSIVE MissRun(_, _)
MissRun(p, k) ==
    IF k = 1 THEN 0
    ELSE IF LevelAt(p, k - 1) < product_specs.coupon_barrier
         THEN 1 + MissRun(p, k - 1)
         ELSE 0

ValidProduct ==
    /\ IsStrictlyIncreasing(product_specs.coupon_dates)
    /\ product_specs.notional > 0

\* C1: with has_memory, an intermediate observation whose level is at or
\* above coupon_barrier and below autocall_barrier, reached after k
\* consecutive misses, pays notional * coupon_rate * (1 + k), and leaves
\* unpaid_coupons at 0.
C1_MemoryCatchUp ==
    (/\ JustObserved
     /\ IsStrictlyIncreasing(product_specs.coupon_dates)
     /\ product_specs.has_memory
     /\ product_specs.coupon_dates[obs_idx - 1] # ExpirationDate
     /\ LevelAt(path_idx, obs_idx - 1) >= product_specs.coupon_barrier
     /\ LevelAt(path_idx, obs_idx - 1) < product_specs.autocall_barrier)
    => /\ payoff = product_specs.notional * product_specs.coupon_rate
                     * (1 + MissRun(path_idx, obs_idx - 1))
       /\ unpaid_coupons = 0

\* misses on dates 1 and 2, coupon barrier cleared on date 3: three coupons
C1_Witness ==
    /\ JustObserved /\ obs_idx = 4
    /\ product_specs.coupon_dates = <<1, 2, 3, 4>>
    /\ valuation_date = 0
    /\ product_specs.has_memory /\ product_specs.notional = 2
    /\ LevelAt(path_idx, 3) >= product_specs.coupon_barrier
    /\ LevelAt(path_idx, 3) < product_specs.autocall_barrier
    /\ MissRun(path_idx, 3) = 2
    /\ payoff = 2 * product_specs.coupon_rate * 3
    /\ total_pv = payoff * Discount(3, 0, risk_free_rate)
    /\ unpaid_coupons = 0

\* first observation of row p at or above the autocall barrier (0: none)
FirstReach(p) ==
    LET hits == {k \in 1..Len(paths[p]) :
                    LevelAt(p, k) >= product_specs.autocall_barrier}
    IN  IF hits = {} THEN 0 ELSE CHOOSE k \in hits : \A h \in hits : k <= h

\* what a row called at its k-th observation after k - 1 misses is worth
CalledValue(k) ==
    Discount(product_specs.coupon_dates[k], valuation_date, risk_free_rate)
      * product_specs.notional
      * (RateScale + product_specs.coupon_rate * (1 + (k - 1)))

CalledAtFutureDate(p) ==
    /\ product_specs.autocall_barrier = product_specs.coupon_barrier
    /\ product_specs.has_memory
    /\ IsStrictlyIncreasing(product_specs.coupon_dates)
    /\ FirstReach(p) > 0
    /\ product_specs.coupon_dates[FirstReach(p)] > valuation_date
    /\ product_specs.coupon_dates[FirstReach(p)] # ExpirationDate

\* C2: with autocall_barrier = coupon_barrier and has_memory, a row whose
\* first level at or above the barrier falls on a future intermediate date k
\* after j = k - 1 misses is worth discount(date k) * notional *
\* (1 + coupon_rate * (1 + j)) from that observation on: no later
\* observation changes it, and that is the value recorded for the row.
C2_CalledIsTerminal ==
    LoopWasRun =>
      /\ (InLoop /\ CalledAtFutureDate(path_idx)
             /\ obs_idx > FirstReach(path_idx))
           => /\ total_pv = CalledValue(FirstReach(path_idx))
              /\ has_been_called
      /\ \A p \in 1..Len(payoff_pvs) :
            CalledAtFutureDate(p) => payoff_pvs[p] = CalledValue(FirstReach(p))

\* levels 0.5 then 1.0: called at date 2 with two coupons, two dates left
C2_Witness ==
    /\ pc = "done" /\ status = "returned"
    /\ product_specs.coupon_dates = <<1, 2, 3, 4>> /\ valuation_date = 0
    /\ product_specs.notional = 2 /\ risk_free_rate = 1
    /\ CalledAtFutureDate(1) /\ FirstReach(1) = 2
    /\ LevelAt(1, 3) >= product_specs.autocall_barrier
    /\ payoff_pvs = <<Discount(2, 0, 1) * 2 * (RateScale + 5 * 2)>>
    /\ result = Rat(payoff_pvs[1], 1)

SomeFixingReaches ==
    \E d \in DOMAIN product_specs.past_fixings :
       product_specs.past_fixings[d] * Scale
          >= product_specs.autocall_barrier * strike_price

BetweenFirstAndLast ==
    /\ valuation_date >= product_specs.coupon_dates[1]
    /\ valuation_date < ExpirationDate

EveryPastDateFixed ==
    \A k \in 1..Len(product_specs.coupon_dates) :
       product_specs.coupon_dates[k] <= valuation_date
          => product_specs.coupon_dates[k] \in DOMAIN product_specs.past_fixings

ShortCircuitedToZero ==
    /\ status = "returned" /\ result = RatZero
    /\ "generate_paths" \notin log /\ "loop" \notin log /\ paths = <<>>

\* C3 as stated: between the first and the last coupon date, a past fixing
\* at or above autocall_barrier * strike makes the call return 0 without any
\* path, and otherwise the per-path loop is run (stated for well-formed
\* products).
C3_AsStated ==
    (pc = "done" /\ BetweenFirstAndLast /\ ValidProduct)
    => IF SomeFixingReaches THEN ShortCircuitedToZero ELSE "loop" \in log

\* C3 amended: ... and when every coupon date at or before the valuation
\* date has a fixing and none reaches autocall_barrier * strike, the
\* short-circuit does not fire and the per-path loop is run.
C3_AlreadyAutocalled ==
    (BetweenFirstAndLast /\ IsStrictlyIncreasing(product_specs.coupon_dates))
    => /\ SomeFixingReaches
            => /\ pc \in {"start", "check_called", "done"}
               /\ pc = "done" => ShortCircuitedToZero
       /\ (~SomeFixingReaches /\ EveryPastDateFixed /\ pc = "done")
            => /\ "loop" \in log
               /\ status = "returned"
               /\ result = Mean(payoff_pvs)

C3_Witness ==
    /\ pc = "done" /\ BetweenFirstAndLast /\ ValidProduct
    /\ Len(product_specs.coupon_dates) = 4 /\ valuation_date = 2
    /\ EveryPastDateFixed
    /\ product_specs.autocall_barrier = 15
    /\ product_specs.past_fixings[1] = 2 /\ product_specs.past_fixings[2] = 3
    /\ ShortCircuitedToZero

\* C4: on or after the last coupon date the call returns 0 at its first
\* check: the already-autocalled check is not made, no past fixing is read
\* and no path is generated.
C4_MaturedShortCircuit ==
    valuation_date >= ExpirationDate
    => /\ pc \in {"start", "done"}
       /\ pc = "done" => /\ status = "returned" /\ result = RatZero
                         /\ log = {"matured_check"}
                         /\ paths = <<>> /\ payoff_pvs = <<>>

\* valued on the last coupon date itself, with no fixing supplied at all
C4_Witness ==
    /\ pc = "done" /\ ValidProduct
    /\ Len(product_specs.coupon_dates) = 4
    /\ valuation_date = ExpirationDate
    /\ DOMAIN product_specs.past_fixings = {}
    /\ status = "returned" /\ result = RatZero

\* C7: a product whose coupon dates are not strictly increasing, or whose
\* notional is not positive, makes the call raise; it never returns a price.
C7_ArgumentValidation ==
    (pc = "done" /\ ~ValidProduct) => status = "raised"

\* C8: before the last coupon date, a coupon date at or before the
\* valuation date with no entry in past_fixings makes the call raise,
\* whatever the fixings that are present (stated for well-formed products).
C8_MissingFixingSurfaced ==
    (pc = "done" /\ ValidProduct
       /\ valuation_date < ExpirationDate
       /\ ~EveryPastDateFixed)
    => status = "raised"

\* C10: every barrier test is >=, and the tests come in the order autocall,
\* coupon barrier, miss on an intermediate date and coupon barrier,
\* protection barrier, terminal payoff on the final date; with
\* autocall_barrier = coupon_barrier an intermediate level on or above the
\* barrier is called and never paid the coupon alone, and the final date
\* never takes the autocall branch.
C10_BranchOrder ==
    JustObserved =>
      LET lvl == LevelAt(path_idx, obs_idx - 1)
          ab == product_specs.autocall_barrier
          cb == product_specs.coupon_barrier
          pb == product_specs.protection_barrier
          mf == IF product_specs.has_memory THEN 1 ELSE 0
      IN  IF product_specs.coupon_dates[obs_idx - 1] = ExpirationDate
          THEN /\ ~has_been_called /\ branch # "autocall"
               /\ lvl >= cb
                    => /\ branch = "final_coupon"
                       /\ payoff = product_specs.notional
                            * (RateScale + product_specs.coupon_rate
                                 * (1 + unpaid_coupons * mf))
               /\ (lvl < cb /\ lvl >= pb)
                    => /\ branch = "principal"
                       /\ payoff = product_specs.notional * RateScale
               /\ (lvl < cb /\ lvl < pb) => branch = "shortfall"
          ELSE /\ lvl >= ab
                    => /\ branch = "autocall" /\ has_been_called
                       /\ payoff = product_specs.notional
                            * (RateScale + product_specs.coupon_rate
                                 * (1 + unpaid_coupons * mf))
               /\ (lvl < ab /\ lvl >= cb)
                    => /\ branch = "coupon" /\ ~has_been_called
                       /\ unpaid_coupons = 0
               /\ (lvl < ab /\ lvl < cb)
                    => /\ branch = "miss" /\ ~has_been_called
                       /\ payoff = 0 /\ unpaid_coupons > 0
               /\ ab = cb => branch # "coupon"

\* a level exactly on the common barrier at an intermediate date: called
C10_Witness ==
    /\ JustObserved /\ ValidProduct
    /\ product_specs.autocall_barrier = product_specs.coupon_barrier
    /\ product_specs.coupon_dates[obs_idx - 1] # ExpirationDate
    /\ LevelAt(path_idx, obs_idx - 1) = product_specs.autocall_barrier
    /\ branch = "autocall" /\ has_been_called
    /\ payoff > product_specs.notional * RateScale

\* the step-by-step call and the one-function form agree
StepwiseMatchesWhole ==
    (pc = "done" /\ error # "RuntimeError")
    => [status |-> status, result |-> result, error |-> error]
         = PriceOutcome(product_specs,
              [p \in 1..Len(paths) |->
                  SubSeq(paths[p],
                         Len(PastDates(product_specs.coupon_dates,
                                       valuation_date)) + 1,
                         Len(paths[p]))],
              valuation_date, strike_price, risk_free_rate)

-----------------------------------------------------------------------------
(* Properties of the paired pricing *)

BothPriced == price_low.status = "returned" /\ price_high.status = "returned"

\* the simulated levels of row p, normalized, past fixings not included
FinalSimLevel(p) == UnderlyingLevel(paths[p][Len(paths[p])], strike_price)

EqualDiscountFactors ==
    \A a, b \in SeqRange(FutureDates(product_specs.coupon_dates,
                                     valuation_date)) :
       Discount(a, valuation_date, risk_free_rate)
          = Discount(b, valuation_date, risk_free_rate)

NoFinalShortfall ==
    \A p \in 1..Len(paths) :
       FinalSimLevel(p) >= product_specs.protection_barrier

\* C9 as stated: the same batch priced with a higher autocall_barrier, all
\* else unchanged, is never worth less than with the lower one.
C9_AsStated ==
    (BothPriced /\ product_specs.has_memory)
    => RatLE(price_low.result, price_high.result)

\* C9 amended: ... is never worth less than with the lower one, provided
\* every future observation date has the same discount factor and every
\* path's final level is at or above protection_barrier.
C9_MonotoneInAutocallBarrier ==
    (BothPriced /\ EqualDiscountFactors /\ NoFinalShortfall)
    => RatLE(price_low.result, price_high.result)

\* two rows, one called at date 1 under the lower barrier only: the higher
\* barrier pays it a coupon at date 1 and more later
C9_Witness ==
    /\ BothPriced /\ EqualDiscountFactors /\ NoFinalShortfall
    /\ valuation_date = 0 /\ Len(paths) = 2
    /\ higher_barrier = 15
    /\ UnderlyingLevel(paths[1][1], strike_price) = 10
    /\ ~RatLE(price_high.result, price_low.result)

-----------------------------------------------------------------------------
(* calibrate_heston_model: HestonPricer.calibrate_heston_model              *)
(* (heston_pricer.py:73-124) and calibration.calibrate_heston_model         *)
(* (calibration.py:11-65)                                                   *)

Implementations == {"HestonPricer", "calibration"}

\* parameter vectors [v0, kappa, theta, sigma, rho] the optimizer may try
ParamVectors == {<<v0, 1, theta, 1, 0>> : v0 \in 1..2, theta \in 1..2}
\* market implied volatilities
MarketVols == {2, 4}

Abs(x) == IF x < 0 THEN -x ELSE x

\* floor of the square root
ISqrt(n) == CHOOSE r \in 0..n : r * r <= n /\ (r + 1) * (r + 1) > n

\* np.sqrt, to 1/SqrtScale
Sqrt(n) == ISqrt(n * SqrtScale * SqrtScale)

\* volatility surfaces: expirations, strikes and one quote per pair
Surfaces ==
    UNION {{[n_expiries |-> ne, n_strikes |-> nk, volatilities |-> vol] :
               vol \in [(1..ne) \X (1..nk) -> MarketVols]} :
             ne \in 1..MaxExpiries, nk \in 1..MaxStrikes}

\* heston_pricer.py:100-112, calibration.py:43-52  one helper per expiry
\* (outer loop) and strike (inner loop), appended in that order
BuildHelperList(md) ==
    [h \in 1..(md.n_expiries * md.n_strikes) |->
        LET i == ((h - 1) \div md.n_strikes) + 1
            j == ((h - 1) % md.n_strikes) + 1
        IN  [expiry |-> i, strike |-> j, market_vol |-> md.volatilities[<<i, j>>]]]

\* helper.calibrationError() (heston_pricer.py:118, calibration.py:56): the
\* deviation of the volatility the shared model implies under its current
\* parameters from the helper's market quote
CalibrationError(params, helper) == (params[1] + params[3]) - helper.market_vol

Errors(params, helpers) ==
    [h \in 1..Len(helpers) |-> CalibrationError(params, helpers[h])]

RECURSIVE SumAbs(_)
SumAbs(errors) ==
    IF errors = <<>> THEN 0 ELSE Abs(Head(errors)) + SumAbs(Tail(errors))

RECURSIVE SumSquares(_)
SumSquares(errors) ==
    IF errors = <<>> THEN 0
    ELSE Head(errors) * Head(errors) + SumSquares(Tail(errors))

\* heston_pricer.py:119  np.sqrt(np.sum(np.abs(errors)))
ObjectiveFunctionValue(errors) == Sqrt(SumAbs(errors))

\* calibration.py:57  np.sqrt(np.sum(np.square(errors)))
CostFunctionValue(errors) == Sqrt(SumSquares(errors))

InitCal ==
    /\ impl \in Implementations
    /\ market_data \in Surfaces
    /\ model_params \in ParamVectors
    /\ cal_pc = "build"
    /\ calibration_helpers = <<>>
    /\ last_x = <<>> /\ last_value = 0 /\ n_evals = 0
    /\ best_x = <<>> /\ best_f = 0 /\ returned_params = <<>>
    /\ valuation_date = 0 /\ strike_price = 2 /\ risk_free_rate = 0
    /\ product_specs = <<>> /\ num_paths = 0
    /\ IdleCall /\ IdlePair

\* heston_pricer.py:97-112, calibration.py:43-52
BuildHelpers ==
    /\ cal_pc = "build"
    /\ calibration_helpers' = BuildHelperList(market_data)
    /\ cal_pc' = "optimize"
    /\ UNCHANGED <<pricerVars, callVars, pairVars, impl, market_data,
                   model_params, last_x, last_value, n_evals, best_x, best_f,
                   returned_params>>

\* the optimizer's record of the best vector it has evaluated
Remember(params, value) ==
    IF n_evals = 0 \/ value < best_f
    THEN best_x' = params /\ best_f' = value
    ELSE UNCHANGED <<best_x, best_f>>

\* heston_pricer.py:114-119  the optimizer calls objective_function(params)
EvaluateObjectiveFunction ==
    /\ cal_pc = "optimize" /\ impl = "HestonPricer" /\ n_evals < MaxEvals
    /\ \E params \in ParamVectors :
          /\ model_params' = params
          /\ last_x' = params
          /\ last_value' = ObjectiveFunctionValue(
                               Errors(params, calibration_helpers))
          /\ Remember(params, last_value')
    /\ n_evals' = n_evals + 1
    /\ UNCHANGED <<pricerVars, callVars, pairVars, impl, cal_pc, market_data,
                   calibration_helpers, returned_params>>

\* calibration.py:54-57  the optimizer calls cost_function(params)
EvaluateCostFunction ==
    /\ cal_pc = "optimize" /\ impl = "calibration" /\ n_evals < MaxEvals
    /\ \E params \in ParamVectors :
          /\ model_params' = params
          /\ last_x' = params
          /\ last_value' = CostFunctionValue(
                               Errors(params, calibration_helpers))
          /\ Remember(params, last_value')
    /\ n_evals' = n_evals + 1
    /\ UNCHANGED <<pricerVars, callVars, pairVars, impl, cal_pc, market_data,
                   calibration_helpers, returned_params>>

\* heston_pricer.py:122-124  the optimizer's result is dropped; the model is
\* returned as the last objective evaluation left it
ReturnFromPricer ==
    /\ cal_pc = "optimize" /\ impl = "HestonPricer" /\ n_evals >= 1
    /\ returned_params' = model_params
    /\ cal_pc' = "done"
    /\ UNCHANGED <<pricerVars, callVars, pairVars, impl, market_data,
                   calibration_helpers, model_params, last_x, last_value,
                   n_evals, best_x, best_f>>

\* calibration.py:60-65  result.x is applied to the model and returned
ReturnFromCalibration ==
    /\ cal_pc = "optimize" /\ impl = "calibration" /\ n_evals >= 1
    /\ model_params' = best_x
    /\ returned_params' = best_x
    /\ cal_pc' = "done"
    /\ UNCHANGED <<pricerVars, callVars, pairVars, impl, market_data,
                   calibration_helpers, last_x, last_value, n_evals,
                   best_x, best_f>>

NextCal ==
    \/ BuildHelpers
    \/ EvaluateObjectiveFunction
    \/ EvaluateCostFunction
    \/ ReturnFromPricer
    \/ ReturnFromCalibration

SpecCal == InitCal /\ [][NextCal]_vars

-----------------------------------------------------------------------------
(* Properties of the calibration *)

\* C5: when calibrate_heston_model returns, the returned model holds the
\* vector the optimizer reported as best, in both implementations.
C5_ReturnsBestVector ==
    cal_pc = "done" => model_params = best_x /\ returned_params = best_x

\* the same, for calibration.calibrate_heston_model alone
C5_CalibrationModuleOnly ==
    (cal_pc = "done" /\ impl = "calibration")
    => model_params = best_x /\ returned_params = best_x

\* sum over every (expiry, strike) pair of the surface of the squared
\* deviation of the model under params from the quote
RECURSIVE SquaredDeviations(_, _)
SquaredDeviations(params, pairs) ==
    IF pairs = {} THEN 0
    ELSE LET q == CHOOSE x \in pairs : TRUE
             e == (params[1] + params[3]) - market_data.volatilities[q]
         IN  e * e + SquaredDeviations(params, pairs \ {q})

SurfacePairs == (1..market_data.n_expiries) \X (1..market_data.n_strikes)

OneHelperPerPair ==
    /\ Len(calibration_helpers) = Cardinality(SurfacePairs)
    /\ \A q \in SurfacePairs :
          Cardinality({h \in 1..Len(calibration_helpers) :
                          /\ calibration_helpers[h].expiry = q[1]
                          /\ calibration_helpers[h].strike = q[2]
                          /\ calibration_helpers[h].market_vol
                               = market_data.volatilities[q]}) = 1

\* C6: in both implementations there is exactly one helper per (expiry,
\* strike) pair, and each objective evaluation applies its vector to the
\* shared model and returns sqrt(sum of calibrationError^2 over the helpers).
C6_RootSumOfSquares ==
    /\ cal_pc \in {"optimize", "done"} => OneHelperPerPair
    /\ (cal_pc = "optimize" /\ n_evals >= 1)
         => /\ model_params = last_x
            /\ last_value = Sqrt(SquaredDeviations(last_x, SurfacePairs))

\* the same, for calibration.calibrate_heston_model alone
C6_CalibrationModuleOnly ==
    impl = "calibration" => C6_RootSumOfSquares

=============================================================================
